---------------------------- MODULE Spec2Model ----------------------------
(***************************************************************************)
(* A model of src/stockmomentum.py: the indicator engine                   *)
(* (calculate_momentum_indicators), the scoring engine                     *)
(* (calculate_momentum_score), the ranking and filter engine               *)
(* (get_recommendations) and the orchestrating loop (analyze_stocks,       *)
(* main).                                                                  *)
(*                                                                         *)
(* Numbers.  The program computes in IEEE doubles.  A number of the model  *)
(* is a record [n |-> numerator, d |-> denominator, ulp |-> k]: the double *)
(* k places above (below, for k < 0) the double nearest to the rational    *)
(* n/d, which is in lowest terms with d > 0.  NaN is [n |-> 0, d |-> 0,    *)
(* ulp |-> 0], and every comparison with NaN is FALSE, as in Python.       *)
(*                                                                         *)
(* Arithmetic is carried out on the rationals and yields ulp = 0, which    *)
(* leaves out rounding errors of relative size 2^-52.  Such an error       *)
(* matters where the program compares a computed value with a value it can *)
(* equal exactly.  This happens for volume_ratio, a rounded quotient of    *)
(* two rounded means that lines 180-183 compare with 1.2 and 0.8:          *)
(* VolumeRatio performs the three divisions of lines 124-126 as a double   *)
(* does (FloatQuotient) and records the places by which the result misses  *)
(* the double nearest to the exact ratio.  The one irrational quantity,    *)
(* the standard deviation behind `volatility`, is truncated to whole       *)
(* percent (see Volatility).                                               *)
(***************************************************************************)
EXTENDS Integers, Sequences, FiniteSets, TLC

VARIABLES
    pc,          \* position of the running call
    data,        \* the series handed to calculate_momentum_indicators, or None
    ticker,      \* the ticker handed to calculate_momentum_indicators
    indicators,  \* an indicator record (a Python dict), or None
    score,       \* the value returned by calculate_momentum_score
    results,     \* the list of scored records (analyze_stocks / get_recommendations)
    top_n,       \* get_recommendations' parameter
    top_buys,    \* first list returned by get_recommendations
    top_sells,   \* second list returned by get_recommendations
    i,           \* analyze_stocks' loop index (enumerate), 0-based
    fetched,     \* what the data provider answered for each ticker visited so far
    report       \* what main printed: "", "no data" or "recommendations"

vars == <<pc, data, ticker, indicators, score, results, top_n, top_buys,
          top_sells, i, fetched, report>>

\* Python's None.
None == [none |-> TRUE]

-----------------------------------------------------------------------------
(* Rational arithmetic standing for the program's float arithmetic.        *)

Abs(x) == IF x < 0 THEN -x ELSE x

RECURSIVE GCD(_, _)
GCD(a, b) == IF b = 0 THEN a ELSE GCD(b, a % b)

\* The rational n/d (d # 0) in lowest terms with a positive denominator.
Norm(n, d) ==
    LET s == IF d < 0 THEN -1 ELSE 1
        g == GCD(Abs(n), Abs(d))
    IN  [n |-> (s * n) \div g, d |-> (s * d) \div g, ulp |-> 0]

R(k) == [n |-> k, d |-> 1, ulp |-> 0]

NaN == [n |-> 0, d |-> 0, ulp |-> 0]

IsNaN(x) == x.d = 0

LCM(a, b) == (a \div GCD(a, b)) * b

RAdd(x, y) ==
    LET l == LCM(x.d, y.d)
    IN  Norm(x.n * (l \div x.d) + y.n * (l \div y.d), l)

RNeg(x) == [n |-> -x.n, d |-> x.d, ulp |-> -x.ulp]

RSub(x, y) == RAdd(x, RNeg(y))

RMul(x, y) ==
    LET a == Norm(x.n, y.d)
        b == Norm(y.n, x.d)
    IN  Norm(a.n * b.n, a.d * b.d)

\* x / y for y # 0.
RDiv(x, y) == RMul(x, Norm(y.d, y.n))

\* Comparisons; FALSE as soon as one side is NaN.  Two doubles near
\* different rationals compare as the rationals do (the rationals of the
\* model have small denominators and lie far more than a few places apart);
\* two doubles near the same rational compare by their places.
RLt(x, y) ==
    /\ ~IsNaN(x) /\ ~IsNaN(y)
    /\ \/ x.n * y.d < y.n * x.d
       \/ (x.n * y.d = y.n * x.d /\ x.ulp < y.ulp)
RGt(x, y) == RLt(y, x)
RLe(x, y) ==
    /\ ~IsNaN(x) /\ ~IsNaN(y)
    /\ \/ x.n * y.d < y.n * x.d
       \/ (x.n * y.d = y.n * x.d /\ x.ulp <= y.ulp)
RGe(x, y) == RLe(y, x)

\* Python's min(x, y) and max(x, y): the first argument unless the second
\* is strictly smaller (larger).
RMin(x, y) == IF RLt(y, x) THEN y ELSE x
RMax(x, y) == IF RGt(y, x) THEN y ELSE x

-----------------------------------------------------------------------------
(* Division of doubles, as `/` performs it on lines 124-126: the quotient  *)
(* rounded to 53 significant bits, ties to even.  An integer of up to 56   *)
(* bits is a pair <<hi, lo>> standing for hi * Limb + lo, 0 <= lo < Limb;  *)
(* a positive double is [m |-> mantissa, e |-> exponent] standing for      *)
(* m * 2^(e - 52) with 2^52 <= m < 2^53.                                   *)

Limb == 2^26

Big(k) == <<k \div Limb, k % Limb>>

BigTwice(x) == <<2 * x[1] + (2 * x[2]) \div Limb, (2 * x[2]) % Limb>>

BigGe(x, y) == x[1] > y[1] \/ (x[1] = y[1] /\ x[2] >= y[2])

\* x - y for x >= y.
BigMinus(x, y) ==
    IF x[2] >= y[2]
    THEN <<x[1] - y[1], x[2] - y[2]>>
    ELSE <<x[1] - y[1] - 1, x[2] + Limb - y[2]>>

BigPlusOne(x) == IF x[2] + 1 = Limb THEN <<x[1] + 1, 0>> ELSE <<x[1], x[2] + 1>>

BigOdd(x) == x[2] % 2 = 1

\* x - y as an integer, for x and y a few units apart.
BigDiff(x, y) == (x[1] - y[1]) * Limb + (x[2] - y[2])

\* 2^52 and 2^53.
MantissaLow  == <<Limb, 0>>
MantissaHigh == <<2 * Limb, 0>>

\* a / b = (a' / b') * 2^e with 1 <= a' / b' < 2, as <<a', b', e>>.
RECURSIVE Normalise(_, _, _)
Normalise(a, b, e) ==
    IF BigGe(a, BigTwice(b)) THEN Normalise(a, BigTwice(b), e + 1)
    ELSE IF ~BigGe(a, b) THEN Normalise(BigTwice(a), b, e - 1)
    ELSE <<a, b, e>>

\* The next k >= 1 bits of a quotient with remainder r < b and divisor b,
\* as <<bits, remainder left>>: long division, one bit at a time, the run
\* split in halves.
RECURSIVE QuotientBits(_, _, _)
QuotientBits(r, b, k) ==
    IF k = 1
    THEN LET t == BigTwice(r)
         IN  IF BigGe(t, b) THEN <<1, BigMinus(t, b)>> ELSE <<0, t>>
    ELSE LET h     == k \div 2
             first == QuotientBits(r, b, h)
             rest  == QuotientBits(first[2], b, k - h)
         IN  <<first[1] * 2^(k - h) + rest[1], rest[2]>>

\* The double nearest to a / b (a, b > 0), ties to even: the leading bit and
\* 26 more make the high limb of the mantissa, the next 26 the low limb, and
\* the remainder decides the rounding.
FloatQuotient(a, b) ==
    LET nz == Normalise(a, b, 0)
        hi == QuotientBits(BigMinus(nz[1], nz[2]), nz[2], 26)
        lo == QuotientBits(hi[2], nz[2], 26)
        q  == <<Limb + hi[1], lo[1]>>
        t  == BigTwice(lo[2])
        up == BigGe(t, nz[2]) /\ (t # nz[2] \/ BigOdd(q))
        m  == IF up THEN BigPlusOne(q) ELSE q
    IN  IF m = MantissaHigh
        THEN [m |-> MantissaLow, e |-> nz[3] + 1]
        ELSE [m |-> m, e |-> nz[3]]

\* The double nearest to the rational p / q (p, q > 0).
FloatOf(p, q) == FloatQuotient(Big(p), Big(q))

\* x / y on positive doubles.
FloatDiv(x, y) ==
    LET z == FloatQuotient(x.m, y.m)
    IN  [m |-> z.m, e |-> z.e + x.e - y.e]

\* The number of doubles from y up to x (negative when x < y), for x and y
\* a few places apart.
UlpsBetween(x, y) ==
    CASE x.e = y.e     -> BigDiff(x.m, y.m)
      [] x.e = y.e + 1 -> BigDiff(x.m, MantissaLow) + BigDiff(MantissaHigh, y.m)
      [] x.e + 1 = y.e -> 0 - (BigDiff(y.m, MantissaLow) + BigDiff(MantissaHigh, x.m))

-----------------------------------------------------------------------------
(* calculate_momentum_score, lines 146-191.                                *)

\* Lines 154-157: short-term momentum, returns_1w * 2 capped at +-20.
\* (The variant has min and max the wrong way round.)
Contribution1wSwapped(ind) ==
    IF RGt(ind.returns_1w, R(0))
    THEN RMax(RMul(ind.returns_1w, R(2)), R(20))
    ELSE RMin(RMul(ind.returns_1w, R(2)), R(-20))

Contribution1w(ind) ==
    IF RGt(ind.returns_1w, R(0))
    THEN RMin(RMul(ind.returns_1w, R(2)), R(20))
    ELSE RMax(RMul(ind.returns_1w, R(2)), R(-20))

\* Lines 160-163: medium-term momentum, returns_1m * 1.5 capped at +-15.
Contribution1m(ind) ==
    IF RGt(ind.returns_1m, R(0))
    THEN RMin(RMul(ind.returns_1m, Norm(3, 2)), R(15))
    ELSE RMax(RMul(ind.returns_1m, Norm(3, 2)), R(-15))

\* Lines 166-169: long-term momentum, returns_3m capped at +-10.
Contribution3m(ind) ==
    IF RGt(ind.returns_3m, R(0))
    THEN RMin(ind.returns_3m, R(10))
    ELSE RMax(ind.returns_3m, R(-10))

\* Lines 172-177: the RSI zones, first matching branch of the if/elif chain.
RsiPoints(ind) ==
    IF RLe(R(30), ind.rsi) /\ RLe(ind.rsi, R(70)) THEN R(5)
    ELSE IF RGt(ind.rsi, R(80)) THEN R(-10)
    ELSE IF RLt(ind.rsi, R(20)) THEN R(10)
    ELSE R(0)

\* Lines 180-183: volume confirmation (1.2 is 6/5, 0.8 is 4/5).  (The
\* variant takes the two thresholds inclusively.)
VolumePointsInclusive(ind) ==
    IF RGe(ind.volume_ratio, Norm(6, 5)) THEN R(5)
    ELSE IF RLe(ind.volume_ratio, Norm(4, 5)) THEN R(-5)
    ELSE R(0)

VolumePoints(ind) ==
    IF RGt(ind.volume_ratio, Norm(6, 5)) THEN R(5)
    ELSE IF RLt(ind.volume_ratio, Norm(4, 5)) THEN R(-5)
    ELSE R(0)

\* Lines 186-189: price against the moving averages.
Sma20Points(ind) == IF RGt(ind.price_vs_sma20, R(0)) THEN R(3) ELSE R(0)
Sma50Points(ind) == IF RGt(ind.price_vs_sma50, R(0)) THEN R(2) ELSE R(0)

calculate_momentum_score(ind) ==
    IF ind = None
    THEN R(0)
    ELSE RAdd(RAdd(RAdd(RAdd(RAdd(RAdd(RAdd(R(0),
              Contribution1w(ind)), Contribution1m(ind)), Contribution3m(ind)),
              RsiPoints(ind)), VolumePoints(ind)), Sma20Points(ind)),
              Sma50Points(ind))

-----------------------------------------------------------------------------
(* calculate_momentum_indicators, lines 94-144.  A series (a pandas        *)
(* DataFrame) is a record [Close |-> closes, Volume |-> volumes] of two    *)
(* sequences of equal length, oldest bar first; closes are positive.       *)

\* len(data)
NumBars(d) == Len(d.Close)

\* s.iloc[-k]: the k-th element counted from the end (iloc[-1] is the last).
ILocNeg(s, k) == s[Len(s) - k + 1]

\* s.iloc[0]
ILocFirst(s) == s[1]

RECURSIVE SumRange(_, _, _)
SumRange(s, lo, hi) == IF lo > hi THEN 0 ELSE s[lo] + SumRange(s, lo + 1, hi)

\* s.rolling(window=w).mean().iloc[-1]: the mean of the last w values, NaN
\* while fewer than w values exist (min_periods defaults to the window).
RollingMeanLast(s, w) ==
    IF Len(s) < w THEN NaN ELSE Norm(SumRange(s, Len(s) - w + 1, Len(s)), w)

\* Lines 100-102: the reference closes of the three returns.
Price1w(d) ==
    IF NumBars(d) >= 5 THEN ILocNeg(d.Close, 5) ELSE ILocFirst(d.Close)

Price1m(d) ==
    IF NumBars(d) >= 20 THEN ILocNeg(d.Close, 20) ELSE ILocFirst(d.Close)

Price3m(d) ==
    IF NumBars(d) >= 60 THEN ILocNeg(d.Close, 60) ELSE ILocFirst(d.Close)

\* Line 104
CurrentPrice(d) == ILocNeg(d.Close, 1)

\* Lines 107-109: (current_price - price) / price * 100
PctReturn(cur, price) == RMul(RDiv(RSub(R(cur), R(price)), R(price)), R(100))

\* Lines 112-114: delta = Close.diff() is NaN at the first bar, and
\* where(cond, 0) puts 0 wherever cond is false, NaN included.
GainSeq(c) ==
    [j \in 1..Len(c) |-> IF j >= 2 /\ c[j] - c[j - 1] > 0 THEN c[j] - c[j - 1] ELSE 0]

LossSeq(c) ==
    [j \in 1..Len(c) |-> IF j >= 2 /\ c[j] - c[j - 1] < 0 THEN -(c[j] - c[j - 1]) ELSE 0]

\* Lines 115-116 on the last bar: rs = gain / loss, rsi = 100 - 100 / (1 + rs),
\* in float arithmetic: 0/0 is NaN and propagates; x/0 for x > 0 is +inf and
\* 100 / (1 + inf) is 0.
RsiOf(gain, loss) ==
    IF IsNaN(gain) \/ IsNaN(loss) THEN NaN
    ELSE IF loss.n = 0
         THEN IF gain.n = 0 THEN NaN ELSE R(100)
         ELSE RSub(R(100), RDiv(R(100), RAdd(R(1), RDiv(gain, loss))))

\* Line 117: rsi.iloc[-1] if not rsi.empty else 50
CurrentRsi(c) ==
    IF Len(c) = 0
    THEN R(50)
    ELSE RsiOf(RollingMeanLast(GainSeq(c), 14), RollingMeanLast(LossSeq(c), 14))

\* Lines 120-121
Sma20(d) == RollingMeanLast(d.Close, 20)
Sma50(d) == IF NumBars(d) >= 50 THEN RollingMeanLast(d.Close, 50) ELSE Sma20(d)

\* Lines 124-126.  Volume.iloc[-5:].mean() is the mean of the last five
\* bars (of all bars when there are fewer).
RecentVolume(d) ==
    LET n  == NumBars(d)
        lo == IF n >= 5 THEN n - 4 ELSE 1
    IN  Norm(SumRange(d.Volume, lo, n), n - lo + 1)

\* recent_volume / avg_volume_20 divides two doubles, each the rounded
\* quotient of a whole sum by a count: the result is the double `ulp`
\* places from the one nearest to the exact ratio.
VolumeRatio(d) ==
    LET avg_volume_20 == RollingMeanLast(d.Volume, 20)
        recent_volume == RecentVolume(d)
        exact         == RDiv(recent_volume, avg_volume_20)
        quotient      == FloatDiv(FloatOf(recent_volume.n, recent_volume.d),
                                  FloatOf(avg_volume_20.n, avg_volume_20.d))
    IN  IF RGt(avg_volume_20, R(0))
        THEN IF RGt(recent_volume, R(0))
             THEN [n   |-> exact.n,
                   d   |-> exact.d,
                   ulp |-> UlpsBetween(quotient, FloatOf(exact.n, exact.d))]
             ELSE exact
        ELSE R(1)

\* Line 129: Close.pct_change() at bar j >= 2 (NaN at the first bar).
PctChange(c, j) == Norm(c[j] - c[j - 1], c[j - 1])

\* Sums of the daily changes and of their squares over the bars lo..hi
\* (lo <= hi), halving the range.
RECURSIVE SumPct(_, _, _)
SumPct(c, lo, hi) ==
    IF lo = hi THEN PctChange(c, lo)
    ELSE LET mid == (lo + hi) \div 2
         IN  RAdd(SumPct(c, lo, mid), SumPct(c, mid + 1, hi))

RECURSIVE SumPctSq(_, _, _)
SumPctSq(c, lo, hi) ==
    IF lo = hi THEN RMul(PctChange(c, lo), PctChange(c, lo))
    ELSE LET mid == (lo + hi) \div 2
         IN  RAdd(SumPctSq(c, lo, mid), SumPctSq(c, mid + 1, hi))

\* The largest k in lo..hi with k * k <= q (lo * lo <= q).
RECURSIVE SqrtFloor(_, _, _)
SqrtFloor(q, lo, hi) ==
    IF lo >= hi THEN lo
    ELSE LET mid == (lo + hi + 1) \div 2
         IN  IF mid * mid <= q THEN SqrtFloor(q, mid, hi) ELSE SqrtFloor(q, lo, mid - 1)

\* Line 129: pct_change().rolling(window=20).std().iloc[-1] * 100.  The
\* window holds the last 20 daily changes; with exactly 20 bars it would
\* include the NaN of the first bar, and the result is NaN.  The sample
\* variance (ddof = 1) is exact; its square root times 100 is truncated to
\* a whole number of percent, which leaves every comparison with a whole
\* number (the 50 of the filter) unchanged.
Volatility(d) ==
    LET c == d.Close
        n == Len(c)
    IN  IF n < 21 THEN NaN
        ELSE LET s1 == SumPct(c, n - 19, n)
                 s2 == SumPctSq(c, n - 19, n)
                 v  == RDiv(RSub(s2, RDiv(RMul(s1, s1), R(20))), R(19))
                 q  == (10000 * v.n) \div v.d
                 hi == IF q < 46340 THEN q ELSE 46340
             IN  R(SqrtFloor(q, 0, hi))

\* Lines 142-143
PriceVsSma(cur, sma) == RMul(RDiv(RSub(R(cur), sma), sma), R(100))

\* Line 96: data is None or len(data) < 20.  (The variant also rejects a
\* series of exactly 20 bars.)
TooShortInclusive(d) == d = None \/ NumBars(d) <= 20

TooShort(d) == d = None \/ NumBars(d) < 20

calculate_momentum_indicators(d, t) ==
    IF TooShort(d)
    THEN None
    ELSE LET current_price == CurrentPrice(d)
             sma_20 == Sma20(d)
             sma_50 == Sma50(d)
         IN  [ticker         |-> t,
              current_price  |-> R(current_price),
              returns_1w     |-> PctReturn(current_price, Price1w(d)),
              returns_1m     |-> PctReturn(current_price, Price1m(d)),
              returns_3m     |-> PctReturn(current_price, Price3m(d)),
              rsi            |-> CurrentRsi(d.Close),
              sma_20         |-> sma_20,
              sma_50         |-> sma_50,
              volume_ratio   |-> VolumeRatio(d),
              volatility     |-> Volatility(d),
              price_vs_sma20 |-> PriceVsSma(current_price, sma_20),
              price_vs_sma50 |-> IF RGt(sma_50, R(0))
                                 THEN PriceVsSma(current_price, sma_50)
                                 ELSE R(0)]

-----------------------------------------------------------------------------
(* get_recommendations, lines 212-232.                                     *)

Min2(a, b) == IF a < b THEN a ELSE b
Max2(a, b) == IF a > b THEN a ELSE b

\* Python's handling of a slice bound k on a list of length n: a negative
\* bound counts from the end, and every bound is clamped into 0..n.
SliceBound(k, n) == IF k < 0 THEN Max2(n + k, 0) ELSE Min2(k, n)

\* s[:stop]
SliceTo(s, stop) == SubSeq(s, 1, SliceBound(stop, Len(s)))

\* s[start:]
SliceFrom(s, start) == SubSeq(s, SliceBound(start, Len(s)) + 1, Len(s))

\* Line 220: r['volatility'] < 50 and r['current_price'] > 5.  (The variant
\* keeps the two boundary values.)
PassesFilterInclusive(r) == RLe(r.volatility, R(50)) /\ RGe(r.current_price, R(5))

PassesFilter(r) == RLt(r.volatility, R(50)) /\ RGt(r.current_price, R(5))

\* Lines 218-221
FilteredResults(res) == SelectSeq(res, PassesFilter)

\* Line 224: sorted(..., key=momentum_score, reverse=True).  Python's sort
\* is stable, also with reverse=True: r goes behind every record whose score
\* is greater than or equal to its own.  (The variant puts r in front of
\* the records of equal score, as sorting ascending and reversing would.)
RECURSIVE InsertBeforeTies(_, _)
InsertBeforeTies(sorted, r) ==
    IF sorted = <<>> THEN <<r>>
    ELSE IF RGt(Head(sorted).momentum_score, r.momentum_score)
         THEN <<Head(sorted)>> \o InsertBeforeTies(Tail(sorted), r)
         ELSE <<r>> \o sorted

RECURSIVE InsertDesc(_, _)
InsertDesc(sorted, r) ==
    IF sorted = <<>> THEN <<r>>
    ELSE IF RGe(Head(sorted).momentum_score, r.momentum_score)
         THEN <<Head(sorted)>> \o InsertDesc(Tail(sorted), r)
         ELSE <<r>> \o sorted

RECURSIVE SortDesc(_)
SortDesc(s) ==
    IF s = <<>> THEN <<>>
    ELSE InsertDesc(SortDesc(SubSeq(s, 1, Len(s) - 1)), s[Len(s)])

SortedResults(res) == SortDesc(FilteredResults(res))

\* Line 227: sorted_results[:top_n]
TopBuys(res, n) == SliceTo(SortedResults(res), n)

\* Line 230: sorted_results[-top_n:].  (The variant lists the slice lowest
\* score first.)
TopSellsLowestFirst(res, n) ==
    LET t == SliceFrom(SortedResults(res), -n)
    IN  [j \in 1..Len(t) |-> t[Len(t) - j + 1]]

TopSells(res, n) == SliceFrom(SortedResults(res), -n)

\* The pair returned: <<top_buys, top_sells>>.
get_recommendations(res, n) ==
    IF res = <<>>
    THEN <<(<<>>), (<<>>)>>
    ELSE <<TopBuys(res, n), TopSells(res, n)>>

-----------------------------------------------------------------------------
(* fetch_stock_data and analyze_stocks, lines 82-92 and 193-210.           *)

\* Lines 23-80: the universe.  The source lists 494 symbols and keeps the
\* first 100; the model keeps the first UniverseSize of the first eight.
UniverseSize == 3

major_stocks ==
    <<"AAPL", "MSFT", "GOOGL", "AMZN", "NVDA", "TSLA", "META", "BRK-B">>

sp500_tickers == SubSeq(major_stocks, 1, UniverseSize)

\* What the data provider (yfinance) does for one ticker: it raises, or it
\* returns a frame, possibly empty.
Raises == [kind |-> "raise"]
Frame(d) == [kind |-> "frame", frame |-> d]

\* Lines 84-92: an exception and an empty frame both give None.
fetch_stock_data(answer) ==
    IF answer.kind = "raise" THEN None
    ELSE IF NumBars(answer.frame) = 0 THEN None
    ELSE answer.frame

\* Line 207: indicators['momentum_score'] = calculate_momentum_score(indicators)
Scored(ind) == ind @@ ("momentum_score" :> calculate_momentum_score(ind))

\* Lines 204-208, on the list collected so far.  (The variant puts the new
\* record in front.)
CollectFirst(res, d, t) ==
    IF d # None
    THEN LET ind == calculate_momentum_indicators(d, t)
         IN  IF ind # None THEN <<Scored(ind)>> \o res ELSE res
    ELSE res

Collect(res, d, t) ==
    IF d # None
    THEN LET ind == calculate_momentum_indicators(d, t)
         IN  IF ind # None THEN Append(res, Scored(ind)) ELSE res
    ELSE res

\* Line 212: top_n=5
DefaultTopN == 5

-----------------------------------------------------------------------------
(* Inputs.                                                                 *)

\* Bounds of the model.
MaxBars == 62
MaxResults == 5
MaxTopN == 2

\* A series of L bars whose close is b on the bars k+1 .. k+w and a on every
\* other bar: flat (a = b), a step (w >= L - k), or a spike of w bars.
Closes(L, k, w, a, b) == [j \in 1..L |-> IF j > k /\ j <= k + w THEN b ELSE a]

\* Volume `base` on every bar but the last Len(tail), which trade the
\* volumes of `tail` (its last L when the series is shorter).
Volumes(L, base, tail) ==
    [j \in 1..L |-> IF j > L - Len(tail) THEN tail[j + Len(tail) - L] ELSE base]

\* `base` on every bar but the last five, which trade `recent`.
Recent(base, recent) == <<base, [j \in 1..5 |-> recent]>>

Series(L, k, w, lv, v) ==
    [Close |-> Closes(L, k, w, lv[1], lv[2]), Volume |-> Volumes(L, v[1], v[2])]

LevelPairs == {<<10, 10>>, <<10, 20>>, <<20, 10>>, <<10, 40>>}
SpikeWidths == {1, MaxBars}

\* Volume shapes: no trading, a surge, a lull, and three whose last twenty
\* bars put the ratio of the two means at 4/5 or 6/5: means 4 and 5, which
\* divide to the double 0.8; means 0.6 and 0.75, which divide to the double
\* below 0.8; means 5.4 and 4.5, which divide to the double above 1.2.
VolumeShapes ==
    {Recent(0, 0), Recent(100, 200), Recent(100, 50),
     <<6, <<3, 3, 2, 4, 4, 4, 4, 4>>>>,
     <<1, <<0, 0, 0, 1, 1, 1, 0, 0>>>>,
     <<4, <<5, 5, 5, 5, 5, 5, 6, 6>>>>}

\* Where a step or spike may start, counted in bars before the end of the
\* series: next to the end and around each look-back of the indicators.
StartOffsets == {0, 1, 4, 5, 6, 13, 14, 19, 20, 21, 59, 60, 61}

\* Indicator values handed to calculate_momentum_score.
ReturnSamples == {R(-500), R(-10), R(-3), R(0), R(2), R(5), R(10), R(500)}
RsiSamples == {NaN, R(10), R(20), R(25), R(30), R(50), R(70), R(75), R(80), R(90)}
\* The double next to x, k places up.
Places(x, k) == [n |-> x.n, d |-> x.d, ulp |-> k]

VolumeRatioSamples ==
    {R(0), Norm(1, 2), Places(Norm(4, 5), -1), Norm(4, 5), R(1),
     Norm(6, 5), Places(Norm(6, 5), 1), Norm(3, 2)}
SmaDeviationSamples == {R(-1), R(0), R(1)}

ScoreInputs ==
    [ticker : {"AAPL"}, current_price : {R(100)},
     returns_1w : ReturnSamples, returns_1m : ReturnSamples,
     returns_3m : ReturnSamples, rsi : RsiSamples,
     sma_20 : {R(100)}, sma_50 : {R(100)},
     volume_ratio : VolumeRatioSamples, volatility : {R(20)},
     price_vs_sma20 : SmaDeviationSamples, price_vs_sma50 : SmaDeviationSamples]

\* Scored records handed to get_recommendations: the three fields it reads,
\* under the ticker of the record's place in the list.
Profile(s, v, p) == [momentum_score |-> R(s), volatility |-> R(v), current_price |-> R(p)]

Profiles ==
    {Profile(50, 20, 100), Profile(30, 20, 100), Profile(10, 20, 100),
     Profile(-5, 20, 100), Profile(-20, 20, 100),
     Profile(30, 50, 100), Profile(10, 20, 5)}

ScoredRecord(t, pr) ==
    [ticker |-> t, current_price |-> pr.current_price,
     volatility |-> pr.volatility, momentum_score |-> pr.momentum_score]

\* What the provider may answer for a ticker of the universe.
ProviderAnswers ==
    {Raises,
     Frame(Series(0, 0, 0, <<10, 10>>, Recent(100, 100))),
     Frame(Series(19, 10, 19, <<10, 20>>, Recent(100, 100))),
     Frame(Series(20, 0, 0, <<10, 10>>, Recent(0, 0))),
     Frame(Series(25, 20, 25, <<10, 20>>, <<1, <<0, 0, 0, 1, 1, 1, 0, 0>>>>)),
     Frame(Series(30, 25, 30, <<10, 40>>, Recent(100, 200))),
     Frame(Series(61, 50, 1, <<20, 10>>, Recent(100, 50)))}

-----------------------------------------------------------------------------
(* The specifications.                                                     *)

Idle ==
    /\ data = None /\ ticker = "" /\ indicators = None /\ score = R(0)
    /\ results = <<>> /\ top_n = DefaultTopN /\ top_buys = <<>> /\ top_sells = <<>>
    /\ i = 0 /\ fetched = <<>> /\ report = ""

\* main, lines 276-289: analyze_stocks' loop over the universe, then the
\* report.
Init == pc = "analyze" /\ Idle

\* One iteration of the loop of lines 199-208.
AnalyzeTicker ==
    /\ pc = "analyze"
    /\ i < Len(sp500_tickers)
    /\ \E answer \in ProviderAnswers :
         LET t == sp500_tickers[i + 1]
             d == fetch_stock_data(answer)
         IN  /\ fetched' = Append(fetched, answer)
             /\ ticker' = t
             /\ data' = d
             /\ results' = Collect(results, d, t)
    /\ i' = i + 1
    /\ UNCHANGED <<pc, indicators, score, top_n, top_buys, top_sells, report>>

\* Line 210: the loop is exhausted, analyze_stocks returns results to main.
AnalyzeReturn ==
    /\ pc = "analyze"
    /\ i = Len(sp500_tickers)
    /\ pc' = "main"
    /\ UNCHANGED <<data, ticker, indicators, score, results, top_n, top_buys,
                   top_sells, i, fetched, report>>

\* Lines 284-286: nothing was analyzed.
MainNoData ==
    /\ pc = "main"
    /\ results = <<>>
    /\ report' = "no data"
    /\ pc' = "done"
    /\ UNCHANGED <<data, ticker, indicators, score, results, top_n, top_buys,
                   top_sells, i, fetched>>

\* Lines 288-289: get_recommendations(results), then print_recommendations.
MainRecommend ==
    /\ pc = "main"
    /\ results # <<>>
    /\ top_n' = DefaultTopN
    /\ top_buys' = get_recommendations(results, DefaultTopN)[1]
    /\ top_sells' = get_recommendations(results, DefaultTopN)[2]
    /\ report' = "recommendations"
    /\ pc' = "done"
    /\ UNCHANGED <<data, ticker, indicators, score, results, i, fetched>>

Next == AnalyzeTicker \/ AnalyzeReturn \/ MainNoData \/ MainRecommend

Spec == Init /\ [][Next]_vars

\* calculate_momentum_indicators on one series.
IndInit ==
    /\ pc = "ind_call"
    /\ \/ data = None
       \/ \E L \in 0..MaxBars : \E e \in {x \in StartOffsets : x <= L} :
            \E w \in SpikeWidths : \E lv \in LevelPairs : \E v \in VolumeShapes :
              data = Series(L, L - e, w, lv, v)
    /\ ticker \in {"AAPL", "MSFT"}
    /\ indicators = None /\ score = R(0)
    /\ results = <<>> /\ top_n = DefaultTopN /\ top_buys = <<>> /\ top_sells = <<>>
    /\ i = 0 /\ fetched = <<>> /\ report = ""

IndStep ==
    /\ pc = "ind_call"
    /\ indicators' = calculate_momentum_indicators(data, ticker)
    /\ pc' = "ind_ret"
    /\ UNCHANGED <<data, ticker, score, results, top_n, top_buys, top_sells,
                   i, fetched, report>>

SpecInd == IndInit /\ [][IndStep]_vars

\* calculate_momentum_score on one indicator record.
ScoreInit ==
    /\ pc = "score_call"
    /\ (indicators = None \/ indicators \in ScoreInputs)
    /\ data = None /\ ticker = "" /\ score = R(0)
    /\ results = <<>> /\ top_n = DefaultTopN /\ top_buys = <<>> /\ top_sells = <<>>
    /\ i = 0 /\ fetched = <<>> /\ report = ""

ScoreStep ==
    /\ pc = "score_call"
    /\ score' = calculate_momentum_score(indicators)
    /\ pc' = "score_ret"
    /\ UNCHANGED <<data, ticker, indicators, results, top_n, top_buys, top_sells,
                   i, fetched, report>>

SpecScore == ScoreInit /\ [][ScoreStep]_vars

\* get_recommendations on one list of scored records.
RankInit ==
    /\ pc = "rank_call"
    /\ \E n \in 0..MaxResults : \E f \in [1..n -> Profiles] :
         results = [j \in 1..n |-> ScoredRecord(major_stocks[j], f[j])]
    /\ top_n \in 0..MaxTopN
    /\ data = None /\ ticker = "" /\ indicators = None /\ score = R(0)
    /\ top_buys = <<>> /\ top_sells = <<>>
    /\ i = 0 /\ fetched = <<>> /\ report = ""

RankStep ==
    /\ pc = "rank_call"
    /\ top_buys' = get_recommendations(results, top_n)[1]
    /\ top_sells' = get_recommendations(results, top_n)[2]
    /\ pc' = "rank_ret"
    /\ UNCHANGED <<data, ticker, indicators, score, results, top_n, i, fetched,
                   report>>

SpecRank == RankInit /\ [][RankStep]_vars

-----------------------------------------------------------------------------
(* The claims.                                                             *)

InList(r, l) == \E j \in 1..Len(l) : l[j] = r

\* C1: neither list returned by get_recommendations holds a record with
\* volatility >= 50 or with current_price <= 5.
C1_ListsRespectFilter ==
    pc = "rank_ret" =>
        \A l \in {top_buys, top_sells} : \A j \in 1..Len(l) :
            ~RGe(l[j].volatility, R(50)) /\ ~RLe(l[j].current_price, R(5))

\* C1's case: the input held a record of each excluded kind, and the call
\* still recommended something.
C1_Witness ==
    /\ pc = "rank_ret"
    /\ \E j \in 1..Len(results) : RGe(results[j].volatility, R(50))
    /\ \E j \in 1..Len(results) : RLe(results[j].current_price, R(5))
    /\ top_buys # <<>>

\* C2: each of the two lists returned by get_recommendations has at most
\* top_n records, for every top_n >= 0.
C2_AtMostTopN ==
    pc = "rank_ret" => Len(top_buys) <= top_n /\ Len(top_sells) <= top_n

C3_Retained(r) == RLt(r.volatility, R(50)) /\ RGt(r.current_price, R(5))

Scores(l) == [j \in 1..Len(l) |-> l[j].momentum_score]

\* C3: with S the retained records in descending score order and
\* m = min(top_n, |S|), for top_n >= 1 the buy list is the first m elements
\* of S and the sell list is the last m elements of S, in S's order; the
\* scores 50, 30, 10, -5, -20 with top_n = 2 give buys 50, 30 and sells
\* -5, -20.
C3_TopAndBottomSlices ==
    (pc = "rank_ret" /\ top_n >= 1) =>
        LET F == SelectSeq(results, C3_Retained)
            S == SortedResults(results)
            m == Min2(top_n, Len(S))
        IN  /\ Len(S) = Len(F)
            /\ \A j \in 1..Len(F) : InList(F[j], S)
            /\ \A j \in 1..(Len(S) - 1) :
                   RGe(S[j].momentum_score, S[j + 1].momentum_score)
            /\ top_buys = [j \in 1..m |-> S[j]]
            /\ top_sells = [j \in 1..m |-> S[Len(S) - m + j]]
            /\ \A j \in 1..(Len(top_sells) - 1) :
                   RGe(top_sells[j].momentum_score, top_sells[j + 1].momentum_score)
            /\ (Scores(results) = <<R(50), R(30), R(10), R(-5), R(-20)>> /\ top_n = 2
                  /\ Len(F) = 5)
               => /\ Scores(top_buys) = <<R(50), R(30)>>
                  /\ Scores(top_sells) = <<R(-5), R(-20)>>

\* C3's case: the example of the claim, ranked.
C3_Witness ==
    /\ pc = "rank_ret"
    /\ top_n = 2
    /\ Scores(results) = <<R(50), R(30), R(10), R(-5), R(-20)>>
    /\ Scores(top_buys) = <<R(50), R(30)>>
    /\ Scores(top_sells) = <<R(-5), R(-20)>>

\* The place in the input list of the record of ticker t.
InputPlace(t) == CHOOSE j \in 1..Len(results) : results[j].ticker = t

KeepsInputOrderOfTies(l) ==
    \A a, b \in 1..Len(l) :
        (a < b /\ l[a].momentum_score = l[b].momentum_score)
            => InputPlace(l[a].ticker) < InputPlace(l[b].ticker)

\* C9: records of equal momentum_score stand in the sorted sequence, and in
\* the buy and sell lists, in the order they had in the input list.
C9_StableTies ==
    pc = "rank_ret" =>
        /\ KeepsInputOrderOfTies(SortedResults(results))
        /\ KeepsInputOrderOfTies(top_buys)
        /\ KeepsInputOrderOfTies(top_sells)

\* C9's case: two records of equal score were both recommended.
C9_Witness ==
    /\ pc = "rank_ret"
    /\ \E a, b \in 1..Len(top_buys) :
           a < b /\ top_buys[a].momentum_score = top_buys[b].momentum_score
    /\ \E a, b \in 1..Len(top_sells) :
           a < b /\ top_sells[a].momentum_score = top_sells[b].momentum_score

\* c is raw capped into [-cap, +cap]: raw itself inside the interval, the
\* bound of raw's sign outside it.
CappedAt(c, raw, cap) ==
    /\ RLe(R(-cap), c) /\ RLe(c, R(cap))
    /\ (RLe(R(-cap), raw) /\ RLe(raw, R(cap))) => c = raw
    /\ RGt(raw, R(cap)) => c = R(cap)
    /\ RLt(raw, R(-cap)) => c = R(-cap)

\* C4: the 1-week, 1-month and 3-month contributions are returns_1w * 2,
\* returns_1m * 1.5 and returns_3m capped into [-20, 20], [-15, 15] and
\* [-10, 10].
C4_ContributionsCapped ==
    (pc = "score_ret" /\ indicators # None) =>
        /\ CappedAt(Contribution1w(indicators), RMul(indicators.returns_1w, R(2)), 20)
        /\ CappedAt(Contribution1m(indicators), RMul(indicators.returns_1m, Norm(3, 2)), 15)
        /\ CappedAt(Contribution3m(indicators), indicators.returns_3m, 10)

\* C4's case: a 1-week return of +500% was scored and contributed +20, a
\* 1-month return of -500% contributed -15.
C4_Witness ==
    /\ pc = "score_ret"
    /\ indicators # None
    /\ indicators.returns_1w = R(500) /\ Contribution1w(indicators) = R(20)
    /\ indicators.returns_1m = R(-500) /\ Contribution1m(indicators) = R(-15)

\* The scoring table, term by term; each RSI and volume rule adds its
\* points independently of the others.
Clamp(x, cap) ==
    IF RGt(x, R(cap)) THEN R(cap) ELSE IF RLt(x, R(-cap)) THEN R(-cap) ELSE x

TableRsi(rsi) ==
    RAdd(IF RLe(R(30), rsi) /\ RLe(rsi, R(70)) THEN R(5) ELSE R(0),
         RAdd(IF RGt(rsi, R(80)) THEN R(-10) ELSE R(0),
              IF RLt(rsi, R(20)) THEN R(10) ELSE R(0)))

TableVolume(vr) ==
    RAdd(IF RGt(vr, Norm(6, 5)) THEN R(5) ELSE R(0),
         IF RLt(vr, Norm(4, 5)) THEN R(-5) ELSE R(0))

TableScore(ind) ==
    RAdd(Clamp(RMul(ind.returns_1w, R(2)), 20),
    RAdd(Clamp(RMul(ind.returns_1m, Norm(3, 2)), 15),
    RAdd(Clamp(ind.returns_3m, 10),
    RAdd(TableRsi(ind.rsi),
    RAdd(TableVolume(ind.volume_ratio),
    RAdd(IF RGt(ind.price_vs_sma20, R(0)) THEN R(3) ELSE R(0),
         IF RGt(ind.price_vs_sma50, R(0)) THEN R(2) ELSE R(0)))))))

IsExample(ind) ==
    /\ ind.returns_1w = R(10) /\ ind.returns_1m = R(5) /\ ind.returns_3m = R(2)
    /\ ind.rsi = R(50) /\ ind.volume_ratio = Norm(3, 2)
    /\ RGt(ind.price_vs_sma20, R(0)) /\ RGt(ind.price_vs_sma50, R(0))

\* C5: the score is the sum of the seven terms of the scoring table, one
\* RSI rule and one volume rule at most applying to a record, and the
\* example record scores 44.5.
C5_ScoreIsTableSum ==
    (pc = "score_ret" /\ indicators # None) =>
        /\ score = TableScore(indicators)
        /\ RsiPoints(indicators) \in {R(5), R(-10), R(10), R(0)}
        /\ VolumePoints(indicators) \in {R(5), R(-5), R(0)}
        /\ IsExample(indicators) => score = Norm(89, 2)

\* C5's case: the example record, scored 44.5.
C5_Witness ==
    pc = "score_ret" /\ indicators # None /\ IsExample(indicators) /\ score = Norm(89, 2)

\* C6: no record comes back exactly when the series is absent or has fewer
\* than 20 bars; otherwise the record carries the ticker given and the
\* last close as current_price.
C6_RecordIffTwentyBars ==
    pc = "ind_ret" =>
        IF data = None
        THEN indicators = None
        ELSE /\ (indicators = None) <=> (Len(data.Close) < 20)
             /\ indicators # None =>
                    /\ indicators.ticker = ticker
                    /\ indicators.current_price = R(data.Close[Len(data.Close)])

\* C6's case: a series of exactly 20 bars gave a record.
C6_Witness ==
    pc = "ind_ret" /\ data # None /\ Len(data.Close) = 20 /\ indicators # None

\* The reference close C7 names: the close N bars before the last bar,
\* the earliest close when the series holds no such bar.
ClaimedReference(c, N) == IF Len(c) - N >= 1 THEN c[Len(c) - N] ELSE c[1]

ClaimedReturn(c, N) ==
    Norm((c[Len(c)] - ClaimedReference(c, N)) * 100, ClaimedReference(c, N))

\* C7: returns_1w, returns_1m and returns_3m are the percentage changes of
\* the last close against the close 5, 20 and 60 bars before the last bar
\* (the earliest close when the series is too short).
C7_ReturnsLookBackNBars ==
    (pc = "ind_ret" /\ indicators # None) =>
        /\ indicators.returns_1w = ClaimedReturn(data.Close, 5)
        /\ indicators.returns_1m = ClaimedReturn(data.Close, 20)
        /\ indicators.returns_3m = ClaimedReturn(data.Close, 60)

\* C8: for a series of at least 20 bars (positive closes, non-negative
\* volumes) the record's rsi is a number within [0, 100] and its
\* volume_ratio is a number >= 0.
C8_RsiAndVolumeRatioInRange ==
    (pc = "ind_ret" /\ indicators # None) =>
        /\ ~IsNaN(indicators.rsi)
        /\ RLe(R(0), indicators.rsi) /\ RLe(indicators.rsi, R(100))
        /\ ~IsNaN(indicators.volume_ratio)
        /\ RGe(indicators.volume_ratio, R(0))

\* A provider answer that analyze_stocks can score: a frame of 20 or more
\* bars.
Usable(answer) == answer.kind = "frame" /\ Len(answer.frame.Close) >= 20

UsablePlace(j) == Usable(fetched[j])

\* The places of the universe visited so far whose answer was usable, in
\* order.
UsablePlaces == SelectSeq([j \in 1..Len(fetched) |-> j], UsablePlace)

\* C10: the loop takes the tickers of the universe in order, one provider
\* answer each, whatever the answers; it never stops before the last
\* ticker; the results are exactly the scored records of the tickers whose
\* answer was a series of 20 or more bars, in universe order; and main
\* ends by reporting no data exactly when the results are empty.
C10_LoopCollectsUsableTickers ==
    /\ i \in 0..Len(sp500_tickers)
    /\ Len(fetched) = i
    /\ (i > 0) => ticker = sp500_tickers[i]
    /\ Len(results) = Len(UsablePlaces)
    /\ \A m \in 1..Len(results) :
           LET j == UsablePlaces[m]
               c == fetched[j].frame.Close
           IN  /\ results[m].ticker = sp500_tickers[j]
               /\ results[m].current_price = R(c[Len(c)])
               /\ "momentum_score" \in DOMAIN results[m]
               /\ ~IsNaN(results[m].momentum_score)
    /\ pc \in {"main", "done"} => i = Len(sp500_tickers)
    /\ pc = "done" =>
           /\ report \in {"no data", "recommendations"}
           /\ (report = "no data") <=> (results = <<>>)
    /\ pc # "done" => ENABLED Next

\* C10's case: the run ended after a raising fetch, a frame that is empty
\* or shorter than 20 bars, and a scored ticker.
C10_Witness ==
    /\ pc = "done"
    /\ \E j \in 1..Len(fetched) : fetched[j].kind = "raise"
    /\ \E j \in 1..Len(fetched) : fetched[j].kind = "frame" /\ ~Usable(fetched[j])
    /\ Len(results) >= 1
    /\ report = "recommendations"

=============================================================================
